---- MODULE Spec2Model ----
(***************************************************************************)
(* EventHub: the store (tables, constraints, row-level policies, cascades  *)
(* and triggers of the SQL migration) and the pages that call it           *)
(* (EventDetails, CreateEvent, Index).                                     *)
(*                                                                         *)
(* A store call is one atomic step (one SQL statement).  A page handler    *)
(* is split at its awaits: the call is issued from the page's local state, *)
(* applied at the store, and its continuation runs later.                  *)
(***************************************************************************)
EXTENDS Integers, Sequences, FiniteSets, TLC

\* ------------------------------------------------------------------ bounds
MaxTime == 2
MaxEvents == 2

\* ------------------------------------------------------------- identities
UserIds == {"u1", "u2"}
\* auth.uid() of a caller without a session is NULL; NULL = x is never true
Anon == "anon"
Callers == UserIds \cup {Anon}
EventIds == 1..MaxEvents
Times == 0..MaxTime
Null == "null"

\* CREATE TYPE public.rsvp_status AS ENUM ('going', 'maybe', 'not_going')
rsvp_status == {"going", "maybe", "not_going"}

\* raw_user_meta_data without a full_name key
NoName == "no_full_name"

VARIABLES
  now,          \* the clock: now() of the store and new Date() of the pages
  users,        \* auth.users (ids)
  issued,       \* ids ever registered (an id is never issued twice)
  profiles,     \* public.profiles
  events,       \* public.events
  nextEventId,  \* gen_random_uuid(): ids are fresh, never reused
  rsvps,        \* public.rsvps
  reviews,      \* public.reviews
  last,         \* the last statement the store executed and its outcome
  pages,        \* the open EventDetails pages
  index,        \* the Index page
  calc,         \* a derived value: what it is computed from and the result
  forms         \* the CreateEvent form and the Profile form

store == <<users, issued, profiles, events, nextEventId, rsvps, reviews>>
tables == <<profiles, events, rsvps, reviews>>
vars ==
  <<now, users, issued, profiles, events, nextEventId, rsvps, reviews, last, pages, index, calc, forms>>

ProfileIds == {p.id : p \in profiles}
EventIdsStored == {e.id : e \in events}

\* ------------------------------------------------------ row-level policies
\* (mutant) the SELECT policy lets every row through
EventsSelectPolicyOpen(uid, e) == TRUE
\* "Public events are viewable by everyone"
EventsSelectPolicy(uid, e) == e.is_public = TRUE \/ e.organizer_id = uid
\* "Authenticated users can create events"
EventsInsertCheck(uid, e) == uid = e.organizer_id
\* "Organizers can update their own events" (USING; also the check of the new row)
EventsUpdatePolicy(uid, e) == uid = e.organizer_id
\* "Organizers can delete their own events"
EventsDeletePolicy(uid, e) == uid = e.organizer_id

\* "RSVPs are viewable by everyone"
RsvpsSelectPolicy(uid, r) == TRUE
RsvpsInsertCheck(uid, r) == uid = r.user_id
\* (mutant) the UPDATE policy forgets the owner
RsvpsUpdatePolicyOpen(uid, r) == TRUE
RsvpsUpdatePolicy(uid, r) == uid = r.user_id
RsvpsDeletePolicy(uid, r) == uid = r.user_id

\* "Reviews are viewable by everyone"
ReviewsSelectPolicy(uid, r) == TRUE
ReviewsInsertCheck(uid, r) == uid = r.user_id
ReviewsUpdatePolicy(uid, r) == uid = r.user_id
ReviewsDeletePolicy(uid, r) == uid = r.user_id

\* ------------------------------------------------------- table constraints
\* (mutant) the constraint admits an empty range
valid_time_range_or_equal(e) == e.end_time >= e.start_time
\* CONSTRAINT valid_time_range CHECK (end_time > start_time)
valid_time_range(e) == e.end_time > e.start_time
\* rating INTEGER NOT NULL CHECK (rating >= 1 AND rating <= 5)
rating_check(r) == r.rating >= 1 /\ r.rating <= 5
\* UNIQUE(event_id, user_id), on rsvps and on reviews
UniqueKey(table, r) == {x \in table : x.event_id = r.event_id /\ x.user_id = r.user_id}
\* (mutant) the table has no unique constraint
UniqueViolationNone(table, r) == FALSE
UniqueViolation(table, r) == UniqueKey(table, r) # {}
\* (mutant) the foreign keys are not checked
FkViolationNone(r) == FALSE
\* REFERENCES public.events(id), REFERENCES public.profiles(id)
FkViolation(r) == r.event_id \notin EventIdsStored \/ r.user_id \notin ProfileIds

\* a patch applied to a row: the columns it names are overwritten
Patched(row, patch) ==
  [f \in DOMAIN row |-> IF f \in DOMAIN patch THEN patch[f] ELSE row[f]]

\* The order of an INSERT's checks: the policy's WITH CHECK, the CHECK
\* constraints, the unique index, the foreign keys.
EventsInsertError(uid, e) ==
  IF ~EventsInsertCheck(uid, e) THEN "rls"
  ELSE IF ~valid_time_range(e) THEN "check"
  ELSE IF e.organizer_id \notin ProfileIds THEN "fk"
  ELSE "none"

RsvpsInsertError(uid, r) ==
  IF ~RsvpsInsertCheck(uid, r) THEN "rls"
  ELSE IF UniqueViolation(rsvps, r) THEN "duplicate"
  ELSE IF FkViolation(r) THEN "fk"
  ELSE "none"

\* (mutant) the insert of a review skips the unique index
ReviewsInsertErrorNoUnique(uid, r) ==
  IF ~ReviewsInsertCheck(uid, r) THEN "rls"
  ELSE IF ~rating_check(r) THEN "check"
  ELSE IF FkViolation(r) THEN "fk"
  ELSE "none"

ReviewsInsertError(uid, r) ==
  IF ~ReviewsInsertCheck(uid, r) THEN "rls"
  ELSE IF ~rating_check(r) THEN "check"
  ELSE IF UniqueViolation(reviews, r) THEN "duplicate"
  ELSE IF FkViolation(r) THEN "fk"
  ELSE "none"

\* ------------------------------------------------------------- statements
\* what the store was asked and what it answered: the caller, the statement's
\* argument, the rows it matched before it ran (for an INSERT the rows holding
\* its unique key), the error, the number of rows written, and the time
Stmt(op, uid, err, arg, seen, n) ==
  [op |-> op, caller |-> uid, err |-> err, arg |-> arg, seen |-> seen,
   count |-> n, at |-> now]

\* created_at, updated_at TIMESTAMPTZ NOT NULL DEFAULT now(): the columns an
\* INSERT does not name take their defaults
Stamped(row) == row @@ [created_at |-> now, updated_at |-> now]

\* (mutant) the trigger leaves the row as the statement wrote it
keep_updated_at_column(new) == new
\* BEFORE UPDATE .. FOR EACH ROW EXECUTE FUNCTION update_updated_at_column()
update_updated_at_column(new) == [new EXCEPT !.updated_at = now]

\* (mutant) the trigger without COALESCE
handle_new_user_raw(u, meta) == Stamped([id |-> u, full_name |-> meta])
\* INSERT INTO auth.users, and its trigger on_auth_user_created
handle_new_user(u, meta) ==
  Stamped([id |-> u, full_name |-> IF meta = NoName THEN "Anonymous User" ELSE meta])

RegisterUser(u, meta) ==
  /\ u \notin issued
  /\ users' = users \cup {u}
  /\ issued' = issued \cup {u}
  /\ profiles' = profiles \cup {handle_new_user(u, meta)}
  /\ last' = Stmt("register", "system", "none", [id |-> u, meta |-> meta], {}, 1)
  /\ UNCHANGED <<now, events, nextEventId, rsvps, reviews>>

\* ON DELETE CASCADE: the rows that go with a set of deleted events
EventCascade(table, ids) == {r \in table : r.event_id \in ids}
\* (mutant) events.organizer_id without ON DELETE CASCADE
ProfileCascadeNoEvents(u) == {}
\* the events, and the rsvps and reviews, that go with a deleted profile
ProfileCascadeEvents(u) == {e \in events : e.organizer_id = u}
ProfileCascade(table, u) ==
  {r \in table : r.user_id = u}
    \cup EventCascade(table, {e.id : e \in ProfileCascadeEvents(u)})

\* DELETE FROM auth.users: profiles.id REFERENCES auth.users(id) ON DELETE CASCADE
DeleteUser(u) ==
  /\ u \in users
  /\ users' = users \ {u}
  /\ profiles' = {p \in profiles : p.id # u}
  /\ events' = events \ ProfileCascadeEvents(u)
  /\ rsvps' = rsvps \ ProfileCascade(rsvps, u)
  /\ reviews' = reviews \ ProfileCascade(reviews, u)
  /\ last' = Stmt("delete_user", "system", "none", [id |-> u],
                  ProfileCascade(rsvps, u) \cup ProfileCascade(reviews, u), 1)
  /\ UNCHANGED <<now, issued, nextEventId>>

\* supabase.from("events").insert(row)
InsertEvent(uid, fields) ==
  LET row == [id |-> nextEventId] @@ fields
      err == EventsInsertError(uid, row)
  IN /\ nextEventId <= MaxEvents
     /\ events' = IF err = "none" THEN events \cup {Stamped(row)} ELSE events
     /\ nextEventId' = IF err = "none" THEN nextEventId + 1 ELSE nextEventId
     /\ last' = Stmt("insert_events", uid, err, row, {}, IF err = "none" THEN 1 ELSE 0)
     /\ UNCHANGED <<now, users, issued, profiles, rsvps, reviews>>

\* supabase.from("events").delete().eq("id", id)
DeleteEvent(uid, id) ==
  LET hit == {e \in events : e.id = id /\ EventsSelectPolicy(uid, e)
                                       /\ EventsDeletePolicy(uid, e)}
      ids == {e.id : e \in hit}
  IN /\ events' = events \ hit
     /\ rsvps' = rsvps \ EventCascade(rsvps, ids)
     /\ reviews' = reviews \ EventCascade(reviews, ids)
     /\ last' = Stmt("delete_events", uid, "none", [id |-> id], hit, Cardinality(hit))
     /\ UNCHANGED <<now, users, issued, profiles, nextEventId>>

\* supabase.from("rsvps").insert([row])
InsertRsvp(uid, row) ==
  LET err == RsvpsInsertError(uid, row)
  IN /\ rsvps' = IF err = "none" THEN rsvps \cup {Stamped(row)} ELSE rsvps
     /\ last' = Stmt("insert_rsvps", uid, err, row, UniqueKey(rsvps, row),
                     IF err = "none" THEN 1 ELSE 0)
     /\ UNCHANGED <<now, users, issued, profiles, events, nextEventId, reviews>>

\* supabase.from("rsvps").update(patch).eq("event_id", e).eq("user_id", u), for a
\* patch of the columns status, created_at, updated_at
UpdateRsvps(uid, e, u, patch) ==
  LET hit == {r \in rsvps : r.event_id = e /\ r.user_id = u
                              /\ RsvpsSelectPolicy(uid, r) /\ RsvpsUpdatePolicy(uid, r)}
  IN /\ rsvps' = (rsvps \ hit) \cup {update_updated_at_column(Patched(r, patch)) : r \in hit}
     /\ last' = Stmt("update_rsvps", uid, "none",
                     [event_id |-> e, user_id |-> u] @@ patch, hit, Cardinality(hit))
     /\ UNCHANGED <<now, users, issued, profiles, events, nextEventId, reviews>>

\* supabase.from("rsvps").update({ status }).eq("event_id", id).eq("user_id", user.id)
UpdateRsvp(uid, e, u, status) == UpdateRsvps(uid, e, u, [status |-> status])

\* supabase.from("reviews").insert(row)
InsertReview(uid, row) ==
  LET err == ReviewsInsertError(uid, row)
  IN /\ reviews' = IF err = "none" THEN reviews \cup {Stamped(row)} ELSE reviews
     /\ last' = Stmt("insert_reviews", uid, err, row, UniqueKey(reviews, row),
                     IF err = "none" THEN 1 ELSE 0)
     /\ UNCHANGED <<now, users, issued, profiles, events, nextEventId, rsvps>>

\* (mutant) the policy's expression is not applied to the new row
EventsUpdateErrorOldRowOnly(uid, new) ==
  IF \E e \in new : ~valid_time_range(e) THEN "check"
  ELSE IF \E e \in new : e.organizer_id \notin ProfileIds THEN "fk"
  ELSE "none"

\* supabase.from("events").update(patch).eq("id", id); a policy with USING and
\* no WITH CHECK applies its USING expression to the new row as well
EventsUpdateError(uid, new) ==
  IF \E e \in new : ~EventsUpdatePolicy(uid, e) THEN "rls"
  ELSE IF \E e \in new : ~valid_time_range(e) THEN "check"
  ELSE IF \E e \in new : e.organizer_id \notin ProfileIds THEN "fk"
  ELSE "none"

UpdateEvent(uid, id, patch) ==
  LET hit == {e \in events : e.id = id /\ EventsSelectPolicy(uid, e)
                                       /\ EventsUpdatePolicy(uid, e)}
      new == {update_updated_at_column(Patched(e, patch)) : e \in hit}
      err == EventsUpdateError(uid, new)
  IN /\ events' = IF err = "none" THEN (events \ hit) \cup new ELSE events
     /\ last' = Stmt("update_events", uid, err, [id |-> id, patch |-> patch], hit,
                     IF err = "none" THEN Cardinality(hit) ELSE 0)
     /\ UNCHANGED <<now, users, issued, profiles, nextEventId, rsvps, reviews>>

\* DELETE FROM rsvps WHERE event_id = e AND user_id = u
DeleteRsvp(uid, e, u) ==
  LET hit == {r \in rsvps : r.event_id = e /\ r.user_id = u
                              /\ RsvpsSelectPolicy(uid, r) /\ RsvpsDeletePolicy(uid, r)}
  IN /\ rsvps' = rsvps \ hit
     /\ last' = Stmt("delete_rsvps", uid, "none", [event_id |-> e, user_id |-> u], hit,
                     Cardinality(hit))
     /\ UNCHANGED <<now, users, issued, profiles, events, nextEventId, reviews>>

\* UPDATE reviews SET rating = .. WHERE event_id = e AND user_id = u
ReviewsUpdateError(uid, new) ==
  IF \E r \in new : ~ReviewsUpdatePolicy(uid, r) THEN "rls"
  ELSE IF \E r \in new : ~rating_check(r) THEN "check"
  ELSE "none"

UpdateReview(uid, e, u, rating) ==
  LET hit == {r \in reviews : r.event_id = e /\ r.user_id = u
                                /\ ReviewsSelectPolicy(uid, r) /\ ReviewsUpdatePolicy(uid, r)}
      new == {update_updated_at_column(Patched(r, [rating |-> rating])) : r \in hit}
      err == ReviewsUpdateError(uid, new)
  IN /\ reviews' = IF err = "none" THEN (reviews \ hit) \cup new ELSE reviews
     /\ last' = Stmt("update_reviews", uid, err,
                     [event_id |-> e, user_id |-> u, rating |-> rating], hit,
                     IF err = "none" THEN Cardinality(hit) ELSE 0)
     /\ UNCHANGED <<now, users, issued, profiles, events, nextEventId, rsvps>>

\* DELETE FROM reviews WHERE event_id = e AND user_id = u
DeleteReview(uid, e, u) ==
  LET hit == {r \in reviews : r.event_id = e /\ r.user_id = u
                                /\ ReviewsSelectPolicy(uid, r) /\ ReviewsDeletePolicy(uid, r)}
  IN /\ reviews' = reviews \ hit
     /\ last' = Stmt("delete_reviews", uid, "none", [event_id |-> e, user_id |-> u], hit,
                     Cardinality(hit))
     /\ UNCHANGED <<now, users, issued, profiles, events, nextEventId, rsvps>>

\* the rows of the embedded resources of a select: rsvps(..), reviews(..)
Embedded(uid, e) ==
  [rsvps |-> {[user_id |-> r.user_id, status |-> r.status] :
                r \in {x \in rsvps : x.event_id = e.id /\ RsvpsSelectPolicy(uid, x)}},
   reviews |-> {[user_id |-> r.user_id, rating |-> r.rating] :
                r \in {x \in reviews : x.event_id = e.id /\ ReviewsSelectPolicy(uid, x)}}]

\* supabase.from("events").select(..).eq("id", id).single(): the rows the
\* SELECT policy lets through; .single() is an error unless there is exactly one
SelectEventRows(uid, id) ==
  {e @@ Embedded(uid, e) : e \in {x \in events : x.id = id /\ EventsSelectPolicy(uid, x)}}

SingleError(rows) == IF Cardinality(rows) = 1 THEN "none" ELSE "no_rows"

SelectEvent(uid, id) ==
  LET rows == SelectEventRows(uid, id)
  IN /\ last' = Stmt("select_event", uid, SingleError(rows), [id |-> id], rows, 0)
     /\ UNCHANGED <<now, store>>

\* supabase.from("rsvps").select().eq("event_id", e): the rows the SELECT policy
\* of rsvps lets through; the policies of events are not consulted
SelectRsvps(uid, e) ==
  LET rows == {r \in rsvps : r.event_id = e /\ RsvpsSelectPolicy(uid, r)}
  IN /\ last' = Stmt("select_rsvps", uid, "none", [event_id |-> e], rows, 0)
     /\ UNCHANGED <<now, store>>

\* supabase.from("reviews").select().eq("event_id", e)
SelectReviews(uid, e) ==
  LET rows == {r \in reviews : r.event_id = e /\ ReviewsSelectPolicy(uid, r)}
  IN /\ last' = Stmt("select_reviews", uid, "none", [event_id |-> e], rows, 0)
     /\ UNCHANGED <<now, store>>

\* supabase.from("profiles").update(patch).eq("id", id)
ProfilesUpdatePolicy(uid, p) == uid = p.id
ProfilesInsertCheck(uid, p) == uid = p.id

UpdateProfile(uid, id, full_name) ==
  LET hit == {p \in profiles : p.id = id /\ ProfilesUpdatePolicy(uid, p)}
  IN /\ profiles' = (profiles \ hit)
                      \cup {update_updated_at_column(Patched(p, [full_name |-> full_name])) : p \in hit}
     /\ last' = Stmt("update_profiles", uid, "none", [id |-> id, full_name |-> full_name], hit,
                     Cardinality(hit))
     /\ UNCHANGED <<now, users, issued, events, nextEventId, rsvps, reviews>>

\* INSERT INTO profiles: the policy's check, the primary key, the key into auth.users
ProfilesInsertError(uid, p) ==
  IF ~ProfilesInsertCheck(uid, p) THEN "rls"
  ELSE IF p.id \in ProfileIds THEN "duplicate"
  ELSE IF p.id \notin users THEN "fk"
  ELSE "none"

InsertProfile(uid, p) ==
  LET err == ProfilesInsertError(uid, p)
  IN /\ profiles' = IF err = "none" THEN profiles \cup {Stamped(p)} ELSE profiles
     /\ last' = Stmt("insert_profiles", uid, err, p, {x \in profiles : x.id = p.id},
                     IF err = "none" THEN 1 ELSE 0)
     /\ UNCHANGED <<now, users, issued, events, nextEventId, rsvps, reviews>>

\* DELETE FROM profiles: the table has no DELETE policy, so no row is visible to it
DeleteProfile(uid, id) ==
  /\ last' = Stmt("delete_profiles", uid, "none", [id |-> id], {}, 0)
  /\ UNCHANGED <<now, store>>

\* the clock advances
Tick ==
  /\ now < MaxTime
  /\ now' = now + 1
  /\ UNCHANGED <<store, last, pages, index, calc, forms>>

\* ------------------------------------------------------- text and schemas
\* String.prototype.trim / z.string().trim(): white space off both ends
RECURSIVE TrimLeft(_)
TrimLeft(t) == IF t # <<>> /\ Head(t) = " " THEN TrimLeft(Tail(t)) ELSE t
RECURSIVE TrimRight(_)
TrimRight(t) ==
  IF t # <<>> /\ t[Len(t)] = " " THEN TrimRight(SubSeq(t, 1, Len(t) - 1)) ELSE t
Trim(t) == TrimRight(TrimLeft(t))

\* the empty string of a datetime-local input left blank
NoTime == -1

\* eventSchema: the trimmed title, description and location have a least length;
\* start_time and end_time are not the empty string
eventSchema(d) ==
  /\ Len(Trim(d.title)) >= 3 /\ Len(Trim(d.title)) <= 200
  /\ Len(Trim(d.description)) >= 10 /\ Len(Trim(d.description)) <= 2000
  /\ Len(Trim(d.location)) >= 3 /\ Len(Trim(d.location)) <= 500
  /\ d.start_time # NoTime
  /\ d.end_time # NoTime

\* reviewSchema
reviewSchema(d) ==
  /\ d.rating >= 1 /\ d.rating <= 5
  /\ Len(Trim(d.comment)) >= 10 /\ Len(Trim(d.comment)) <= 1000

\* -------------------------------------------------- CreateEvent.handleSubmit
\* The handler up to its await: the schema, the time range, then the insert
\* with organizer_id: user.id.  A submission the page itself rejects reaches
\* no statement; it is recorded as the last request, with the page's reason.
handleSubmit(user, data, isPublic) ==
  /\ user # Anon
  /\ IF ~eventSchema(data)
       THEN /\ last' = Stmt("handleSubmit", user, "zod", data, {}, 0)
            /\ UNCHANGED <<now, store>>
     ELSE IF data.end_time <= data.start_time
       THEN /\ last' = Stmt("handleSubmit", user, "time_range", data, {}, 0)
            /\ UNCHANGED <<now, store>>
     ELSE InsertEvent(user,
            [title |-> Trim(data.title), description |-> Trim(data.description),
             location |-> Trim(data.location), start_time |-> data.start_time,
             end_time |-> data.end_time, is_public |-> isPublic, organizer_id |-> user])

\* ------------------------------------------------------ EventDetails pages
MaxCalls == 1

\* useState<EventDetails | null>(null)
NoEvent == [none |-> TRUE]
NoPage ==
  [open |-> FALSE, user |-> Anon, id |-> 0, event |-> NoEvent, userRsvp |-> Null,
   submittingReview |-> FALSE, rendered |-> 0, calls |-> <<>>]
NoIndex == [events |-> <<>>, searchQuery |-> <<>>]
NoCalc == [fn |-> "none", input |-> <<>>, out |-> <<>>, done |-> FALSE]
\* useState(false) of isLoading and of saving; pc is the handler's position:
\* idle, parse (the flag is set, the schema not yet run), await (the call is
\* out) or answered (the store's answer is in, the continuation not yet run);
\* err is the outcome of the last submission, which the toast showed
NoForm ==
  [pc |-> "idle", user |-> Anon, data |-> <<>>, isPublic |-> TRUE, err |-> "none"]
NoForms ==
  [create |-> NoForm @@ [isLoading |-> FALSE], profile |-> NoForm @@ [saving |-> FALSE]]

Call(fn, arg) == [fn |-> fn, arg |-> arg, phase |-> "sent", err |-> "none", data |-> {}]

\* const hasEnded = new Date(event.end_time) < new Date()
hasEnded(event, t) == event.end_time < t
\* const isOrganizer = user?.id === event.organizer_id
isOrganizer(pg) == pg.user = pg.event.organizer_id

Without(q, i) == SubSeq(q, 1, i - 1) \o SubSeq(q, i + 1, Len(q))

\* a page that left (navigate): its state is gone, the calls it sent are not
Left(pg) ==
  IF pg.calls = <<>> THEN NoPage
  ELSE [NoPage EXCEPT !.user = pg.user, !.id = pg.id, !.calls = pg.calls]

\* the route /events/:id is opened: useEffect runs fetchEvent()
Open(s, user, id) ==
  /\ pages[s] = NoPage
  /\ pages' = [pages EXCEPT ![s] =
       [NoPage EXCEPT !.open = TRUE, !.user = user, !.id = id, !.rendered = now,
                      !.calls = <<Call("fetchEvent", [id |-> id])>>]]
  /\ UNCHANGED <<now, store, last, index, calc, forms>>

\* handleRsvp up to its await: update if the page holds a userRsvp, else insert;
\* the buttons stay enabled while a call is out, so a click may come while up to
\* n - 1 calls of the page are in flight
ClickRsvpWithin(s, status, n) ==
  LET pg == pages[s]
  IN /\ pg.open /\ pg.event # NoEvent
     /\ ~isOrganizer(pg) /\ ~hasEnded(pg.event, pg.rendered)
     /\ Len(pg.calls) < n
     /\ pages' = [pages EXCEPT ![s] =
          IF pg.user = Anon THEN Left(pg)
          ELSE [pg EXCEPT !.calls = Append(pg.calls,
                  Call("handleRsvp",
                       [op |-> IF pg.userRsvp # Null THEN "update" ELSE "insert",
                        status |-> status]))]]
     /\ UNCHANGED <<now, store, last, index, calc, forms>>

ClickRsvp(s, status) == ClickRsvpWithin(s, status, MaxCalls)

\* handleSubmitReview up to its await; the form is rendered for a signed-in user
\* once the event has ended and the page holds no review of the user
SubmitReview(s, rating, comment) ==
  LET pg == pages[s]
      d == [rating |-> rating, comment |-> comment]
  IN /\ pg.open /\ pg.event # NoEvent
     /\ pg.user # Anon /\ hasEnded(pg.event, pg.rendered)
     /\ ~\E r \in pg.event.reviews : r.user_id = pg.user
     /\ ~pg.submittingReview
     /\ Len(pg.calls) < MaxCalls
     /\ IF ~reviewSchema(d)
          THEN /\ last' = Stmt("handleSubmitReview", pg.user, "zod",
                               [event_id |-> pg.id, user_id |-> pg.user] @@ d,
                               UniqueKey(reviews, [event_id |-> pg.id, user_id |-> pg.user]), 0)
               /\ pages' = [pages EXCEPT ![s].rendered = now]
          ELSE /\ last' = last
               /\ pages' = [pages EXCEPT ![s] =
                    [pg EXCEPT !.submittingReview = TRUE, !.rendered = now,
                               !.calls = Append(pg.calls,
                                  Call("handleSubmitReview",
                                       [rating |-> d.rating, comment |-> Trim(d.comment)]))]]
     /\ UNCHANGED <<now, store, index, calc, forms>>

\* handleDelete up to its await; the button is rendered for the organizer
ClickDelete(s) ==
  LET pg == pages[s]
  IN /\ pg.open /\ pg.event # NoEvent
     /\ isOrganizer(pg)
     /\ Len(pg.calls) < MaxCalls
     /\ pages' = [pages EXCEPT ![s].calls = Append(pg.calls, Call("handleDelete", [id |-> pg.id]))]
     /\ UNCHANGED <<now, store, last, index, calc, forms>>

\* a call that was sent reaches the store and is executed there
Answered(c) == [c EXCEPT !.phase = "done", !.err = last'.err, !.data = last'.seen]

Apply(s, i) ==
  LET pg == pages[s]
      c == pg.calls[i]
  IN /\ c.phase = "sent"
     /\ CASE c.fn = "fetchEvent" -> SelectEvent(pg.user, pg.id)
          [] c.fn = "handleRsvp" ->
               IF c.arg.op = "update"
                 THEN UpdateRsvp(pg.user, pg.id, pg.user, c.arg.status)
                 ELSE InsertRsvp(pg.user, [event_id |-> pg.id, user_id |-> pg.user,
                                           status |-> c.arg.status])
          [] c.fn = "handleSubmitReview" ->
               InsertReview(pg.user, [event_id |-> pg.id, user_id |-> pg.user,
                                      rating |-> c.arg.rating, comment |-> c.arg.comment])
          [] c.fn = "handleDelete" -> DeleteEvent(pg.user, pg.id)
     /\ pages' = [pages EXCEPT ![s].calls[i] = Answered(c)]
     /\ UNCHANGED <<index, calc, forms>>

\* what the page tells the user when a call comes back
Toast(c) ==
  CASE c.fn = "fetchEvent" -> IF c.err # "none" THEN "Failed to load event" ELSE "none"
    [] c.fn = "handleRsvp" ->
         IF c.err # "none" THEN "Failed to update RSVP" ELSE "RSVP updated"
    [] c.fn = "handleSubmitReview" ->
         IF c.err = "none" THEN "Review submitted successfully!"
         ELSE IF c.err = "duplicate" THEN "You've already reviewed this event"
         ELSE "Failed to submit review"
    [] c.fn = "handleDelete" ->
         IF c.err # "none" THEN "Failed to delete event" ELSE "Event deleted successfully"

\* setUserRsvp(myRsvp?.status || null), for a signed-in user
MyRsvp(pg, data) ==
  IF pg.user = Anon THEN pg.userRsvp
  ELSE IF \E r \in data.rsvps : r.user_id = pg.user
    THEN (CHOOSE r \in data.rsvps : r.user_id = pg.user).status
    ELSE Null

\* the continuation of a call, after its await
Continue(pg, i) ==
  LET c == pg.calls[i]
      rest == Without(pg.calls, i)
      data == CHOOSE d \in c.data : TRUE
  IN CASE c.fn = "fetchEvent" ->
            IF c.err # "none" THEN Left([pg EXCEPT !.calls = rest])
            ELSE [pg EXCEPT !.event = data, !.userRsvp = MyRsvp(pg, data),
                            !.rendered = now, !.calls = rest]
       [] c.fn = "handleRsvp" ->
            IF c.err # "none" THEN [pg EXCEPT !.calls = rest]
            ELSE [pg EXCEPT !.userRsvp = c.arg.status, !.rendered = now,
                            !.calls = Append(rest, Call("fetchEvent", [id |-> pg.id]))]
       [] c.fn = "handleSubmitReview" ->
            IF c.err # "none"
              THEN [pg EXCEPT !.submittingReview = FALSE, !.rendered = now, !.calls = rest]
              ELSE [pg EXCEPT !.submittingReview = FALSE, !.rendered = now,
                              !.calls = Append(rest, Call("fetchEvent", [id |-> pg.id]))]
       [] c.fn = "handleDelete" ->
            IF c.err # "none" THEN [pg EXCEPT !.calls = rest]
            ELSE Left([pg EXCEPT !.calls = rest])

Return(s, i) ==
  LET pg == pages[s]
  IN /\ pg.calls[i].phase = "done"
     /\ pages' = [pages EXCEPT ![s] =
          IF pg.open THEN Continue(pg, i) ELSE Left([pg EXCEPT !.calls = Without(pg.calls, i)])]
     /\ UNCHANGED <<now, store, last, index, calc, forms>>

\* ------------------------------------------------------------- Index page
\* String.prototype.toLowerCase, on the letters of the model's alphabet
LowerChar(c) == CASE c = "A" -> "a" [] c = "B" -> "b" [] c = "C" -> "c" [] OTHER -> c
toLowerCase(t) == [i \in 1..Len(t) |-> LowerChar(t[i])]
\* String.prototype.includes
includes(t, q) == \E i \in 0..(Len(t) - Len(q)) : SubSeq(t, i + 1, i + Len(q)) = q

\* the predicate of events.filter(..): title, description or location
Matches(e, q) ==
  \/ includes(toLowerCase(e.title), toLowerCase(q))
  \/ includes(toLowerCase(e.description), toLowerCase(q))
  \/ includes(toLowerCase(e.location), toLowerCase(q))

SelectMatching(q, query) ==
  LET keep(e) == Matches(e, query) IN SelectSeq(q, keep)

\* const filteredEvents = events.filter(..)
filteredEvents == SelectMatching(index.events, index.searchQuery)

\* (mutant) the query without .eq("is_public", true)
ListRowsAnyVisibility(uid, t) ==
  {e \in events : EventsSelectPolicy(uid, e) /\ e.start_time >= t}
\* .eq("is_public", true).gte("start_time", new Date().toISOString()), under the
\* SELECT policy
ListRows(uid, t) ==
  {e \in events : EventsSelectPolicy(uid, e) /\ e.is_public = TRUE /\ e.start_time >= t}

\* .order("start_time", { ascending: true }): the rows, each once, in an order
\* ascending by start_time (rows of equal start_time in either order)
Ordered(rows) ==
  {q \in [1..Cardinality(rows) -> rows] :
     /\ \A i, j \in DOMAIN q : i # j => q[i] # q[j]
     /\ \A i, j \in DOMAIN q : i < j => q[i].start_time <= q[j].start_time}

\* fetchEvents: the select and setEvents(data || [])
fetchEvents(uid) ==
  LET rows == ListRows(uid, now)
  IN /\ last' = Stmt("select_events", uid, "none", [id |-> Null], rows, 0)
     /\ \E q \in Ordered(rows) : index' = [index EXCEPT !.events = q]
     /\ UNCHANGED <<now, store, pages, calc, forms>>

\* onChange of the search input: setSearchQuery
setSearchQuery(q) ==
  /\ index' = [index EXCEPT !.searchQuery = q]
  /\ UNCHANGED <<now, store, last, pages, calc, forms>>

\* ------------------------------------------------------- CreateEvent form
\* handleSubmit, step by step.  if (!user) return; setIsLoading(true); the
\* submit button is disabled while isLoading
CreateSubmit(user, data, isPublic) ==
  /\ user # Anon
  /\ forms.create.pc = "idle" /\ ~forms.create.isLoading
  /\ nextEventId <= MaxEvents
  /\ forms' = [forms EXCEPT !.create =
       [pc |-> "parse", user |-> user, data |-> data, isPublic |-> isPublic,
        err |-> "none", isLoading |-> TRUE]]
  /\ UNCHANGED <<now, store, last, pages, index, calc>>

\* (mutant) the time range returns without running the finally block
CreateParseNoFinally ==
  LET f == forms.create
  IN /\ f.pc = "parse"
     /\ forms' = [forms EXCEPT !.create =
          IF ~eventSchema(f.data)
            THEN [NoForms.create EXCEPT !.err = "zod"]
          ELSE IF f.data.end_time <= f.data.start_time
            THEN [NoForms.create EXCEPT !.err = "time_range", !.isLoading = TRUE]
          ELSE [f EXCEPT !.pc = "await"]]
     /\ UNCHANGED <<now, store, last, pages, index, calc>>
\* try { eventSchema.parse(data); the time range }: a ZodError is caught, the
\* time range returns from inside the try; both run finally { setIsLoading(false) }
CreateParse ==
  LET f == forms.create
  IN /\ f.pc = "parse"
     /\ forms' = [forms EXCEPT !.create =
          IF ~eventSchema(f.data)
            THEN [NoForms.create EXCEPT !.err = "zod"]
          ELSE IF f.data.end_time <= f.data.start_time
            THEN [NoForms.create EXCEPT !.err = "time_range"]
          ELSE [f EXCEPT !.pc = "await"]]
     /\ UNCHANGED <<now, store, last, pages, index, calc>>

\* await supabase.from("events").insert(..): the insert runs at the store
CreateApply ==
  LET f == forms.create
  IN /\ f.pc = "await"
     /\ InsertEvent(f.user,
          [title |-> Trim(f.data.title), description |-> Trim(f.data.description),
           location |-> Trim(f.data.location), start_time |-> f.data.start_time,
           end_time |-> f.data.end_time, is_public |-> f.isPublic, organizer_id |-> f.user])
     /\ forms' = [forms EXCEPT !.create.pc = "answered", !.create.err = last'.err]
     /\ UNCHANGED <<pages, index, calc>>

\* the request does not reach the store: the client answers { error }
CreateFail ==
  /\ forms.create.pc = "await"
  /\ forms' = [forms EXCEPT !.create.pc = "answered", !.create.err = "network"]
  /\ UNCHANGED <<now, store, last, pages, index, calc>>

\* after the await: if (error) throw error, caught; else the toast and
\* navigate("/"); finally { setIsLoading(false) } on both
CreateReturn ==
  /\ forms.create.pc = "answered"
  /\ forms' = [forms EXCEPT !.create = [NoForms.create EXCEPT !.err = forms.create.err]]
  /\ UNCHANGED <<now, store, last, pages, index, calc>>

\* ----------------------------------------------------------- Profile form
\* profileSchema: full_name trimmed of 2..100 characters; bio and location are
\* z.string().optional(), which takes a string or undefined and refuses null
profileSchema(d) ==
  /\ Len(Trim(d.full_name)) >= 2 /\ Len(Trim(d.full_name)) <= 100
  /\ d.bio # Null /\ Len(Trim(d.bio)) <= 500
  /\ d.location # Null /\ Len(Trim(d.location)) <= 200

\* formData.get(name) as string || null: the empty field is null
OrNull(t) == IF t = <<>> THEN Null ELSE t

\* handleSubmit of the Profile page, step by step.  setSaving(true); the
\* submit button is disabled while saving
ProfileSubmit(user, full_name, bio, location) ==
  /\ user # Anon
  /\ forms.profile.pc = "idle" /\ ~forms.profile.saving
  /\ forms' = [forms EXCEPT !.profile =
       [pc |-> "parse", user |-> user,
        data |-> [full_name |-> full_name, bio |-> OrNull(bio), location |-> OrNull(location)],
        isPublic |-> TRUE, err |-> "none", saving |-> TRUE]]
  /\ UNCHANGED <<now, store, last, pages, index, calc>>

\* try { profileSchema.parse(data) }: a ZodError is caught, finally { setSaving(false) }
ProfileParse ==
  LET f == forms.profile
  IN /\ f.pc = "parse"
     /\ forms' = [forms EXCEPT !.profile =
          IF ~profileSchema(f.data)
            THEN [NoForms.profile EXCEPT !.err = "zod"]
            ELSE [f EXCEPT !.pc = "await"]]
     /\ UNCHANGED <<now, store, last, pages, index, calc>>

\* await supabase.from("profiles").update(validated).eq("id", user?.id); of the
\* validated columns the rows of the model carry full_name
ProfileApply ==
  LET f == forms.profile
  IN /\ f.pc = "await"
     /\ UpdateProfile(f.user, f.user, Trim(f.data.full_name))
     /\ forms' = [forms EXCEPT !.profile.pc = "answered", !.profile.err = last'.err]
     /\ UNCHANGED <<pages, index, calc>>

ProfileFail ==
  /\ forms.profile.pc = "await"
  /\ forms' = [forms EXCEPT !.profile.pc = "answered", !.profile.err = "network"]
  /\ UNCHANGED <<now, store, last, pages, index, calc>>

\* after the await: if (error) throw error, caught; else the toast and
\* fetchProfile(), which is not awaited; finally { setSaving(false) } on both
ProfileReturn ==
  /\ forms.profile.pc = "answered"
  /\ forms' = [forms EXCEPT !.profile = [NoForms.profile EXCEPT !.err = forms.profile.err]]
  /\ UNCHANGED <<now, store, last, pages, index, calc>>

\* a call of an EventDetails page does not reach the store: the client
\* answers { error }
Lost(s, i) ==
  LET c == pages[s].calls[i]
  IN /\ c.phase = "sent"
     /\ pages' = [pages EXCEPT ![s].calls[i] = [c EXCEPT !.phase = "done", !.err = "network"]]
     /\ UNCHANGED <<now, store, last, index, calc, forms>>

\* --------------------------------------------------------- derived values
\* the decimal digits of a natural number, as text
Digits == <<"0", "1", "2", "3", "4", "5", "6", "7", "8", "9">>
RECURSIVE NatString(_)
NatString(n) ==
  IF n < 10 THEN <<Digits[n + 1]>> ELSE NatString(n \div 10) \o <<Digits[(n % 10) + 1]>>

\* (mutant) the digit after the point is cut, not rounded
toFixed1Cut(num, den) ==
  LET n == (10 * num) \div den
  IN NatString(n \div 10) \o <<".">> \o NatString(n % 10)
\* (num / den).toFixed(1), num >= 0, den > 0: the n for which n / 10 is nearest
\* to the quotient, the larger n of two equally near; then its digits.  (The
\* quotient of the source is a double; up to 19 ratings it is exact wherever
\* two n are equally near.)
toFixed1(num, den) ==
  LET n == (20 * num + den) \div (2 * den)
  IN NatString(n \div 10) \o <<".">> \o NatString(n % 10)

\* event.reviews.reduce((sum, r) => sum + r.rating, 0)
RECURSIVE reduceSum(_)
reduceSum(reviewRows) ==
  IF reviewRows = <<>> THEN 0
  ELSE reduceSum(SubSeq(reviewRows, 1, Len(reviewRows) - 1))
         + reviewRows[Len(reviewRows)].rating

\* const avgRating = event.reviews.length > 0 ? (.. / ..).toFixed(1) : "N/A"
avgRating(reviewRows) ==
  IF Len(reviewRows) > 0 THEN toFixed1(reduceSum(reviewRows), Len(reviewRows))
  ELSE <<"N", "/", "A">>

\* (mutant) the filter keeps every row
statusCountAll(rsvpRows, st) == Len(rsvpRows)
\* event.rsvps.filter((r) => r.status === st).length
statusCount(rsvpRows, st) ==
  LET keep(r) == r.status = st IN Len(SelectSeq(rsvpRows, keep))
\* the counts the RSVP buttons show: Going (n), Maybe (n); Can't Go shows none
ButtonCounts(rsvpRows) ==
  [going |-> statusCount(rsvpRows, "going"), maybe |-> statusCount(rsvpRows, "maybe")]

\* the page renders the average of the reviews it holds
RenderAvgRating ==
  /\ calc.fn = "avgRating" /\ ~calc.done
  /\ calc' = [calc EXCEPT !.out = avgRating(calc.input), !.done = TRUE]
  /\ UNCHANGED <<now, store, last, pages, index, forms>>

\* the page renders the RSVP buttons of the RSVPs it holds
RenderButtonCounts ==
  /\ calc.fn = "counts" /\ ~calc.done
  /\ calc' = [calc EXCEPT !.out = ButtonCounts(calc.input), !.done = TRUE]
  /\ UNCHANGED <<now, store, last, pages, index, forms>>

\* trends(start_date, end_date): time is counted in ticks, TicksPerDay to a day
TicksPerDay == 2
\* the day (the bucket) a timestamp falls on
DayOf(ts) == ts \div TicksPerDay
\* the buckets of the days d .. end_date, each with the number of timestamps
\* that fall on its day
RECURSIVE bucketsFrom(_, _, _)
bucketsFrom(d, end_date, stamps) ==
  IF d > end_date THEN <<>>
  ELSE LET onDay(ts) == DayOf(ts) = d
       IN <<[bucket_date |-> d, count |-> Len(SelectSeq(stamps, onDay))]>>
            \o bucketsFrom(d + 1, end_date, stamps)
\* (mutant) the range without its last day
trendsHalfOpen(start_date, end_date, stamps) == bucketsFrom(start_date, end_date - 1, stamps)
trends(start_date, end_date, stamps) == bucketsFrom(start_date, end_date, stamps)

\* GET /api/analytics/trends?start=..&end=..
GetTrends ==
  /\ calc.fn = "trends" /\ ~calc.done
  /\ calc' = [calc EXCEPT
                !.out = trends(calc.input.start_date, calc.input.end_date, calc.input.stamps),
                !.done = TRUE]
  /\ UNCHANGED <<now, store, last, pages, index, forms>>

\* ------------------------------------------------------------ the inputs
Text3 == <<"A", "b", "c">>
Text10 == <<"a", "b", "c", "d", "e", "f", "g", "h", "i", "j">>
Sessions == {"s1", "s2"}

EventFields(orgs, spans, pubs, titles) ==
  {[title |-> t, description |-> Text10, location |-> Text3,
    start_time |-> sp[1], end_time |-> sp[2], is_public |-> pb, organizer_id |-> o] :
     t \in titles, sp \in spans, pb \in pubs, o \in orgs}

\* the store and the pages before anything happened
Constructed ==
  /\ now = 0
  /\ users = {}
  /\ issued = {}
  /\ profiles = {}
  /\ events = {}
  /\ nextEventId = 1
  /\ rsvps = {}
  /\ reviews = {}
  /\ last = Stmt("none", "system", "none", [id |-> Null], {}, 0)
  /\ pages = [s \in Sessions |-> NoPage]
  /\ index = NoIndex
  /\ forms = NoForms

Init == Constructed /\ calc = NoCalc

\* ---------------------------------------------- the store, called directly
client == <<pages, index, calc, forms>>

\* Spec: one event, every statement of the four tables, by every caller
StoreSpans == {<<0, 1>>, <<1, 1>>}
StoreStatuses == {"going", "maybe"}
StoreRatings == {0, 5}

ReqRegister == \E u \in UserIds : RegisterUser(u, NoName) /\ UNCHANGED client
ReqDeleteUser == \E u \in UserIds : DeleteUser(u) /\ UNCHANGED client
ReqInsertEvent ==
  \E c \in Callers, f \in EventFields(UserIds, StoreSpans, BOOLEAN, {Text3}) :
     nextEventId = 1 /\ InsertEvent(c, f) /\ UNCHANGED client
ReqUpdateEvent ==
  \E c \in Callers, patch \in {[end_time |-> 0], [organizer_id |-> "u1"], [is_public |-> FALSE]} :
     UpdateEvent(c, 1, patch) /\ UNCHANGED client
ReqDeleteEvent ==
  \E c \in Callers : DeleteEvent(c, 1) /\ UNCHANGED client
ReqInsertRsvp ==
  \E c \in Callers, u \in UserIds, st \in StoreStatuses :
     InsertRsvp(c, [event_id |-> 1, user_id |-> u, status |-> st]) /\ UNCHANGED client
ReqUpdateRsvp ==
  \E c \in Callers, u \in UserIds, st \in StoreStatuses :
     UpdateRsvp(c, 1, u, st) /\ UNCHANGED client
ReqDeleteRsvp ==
  \E c \in Callers, u \in UserIds : DeleteRsvp(c, 1, u) /\ UNCHANGED client
ReqInsertReview ==
  \E c \in Callers, u \in UserIds, rt \in StoreRatings :
     InsertReview(c, [event_id |-> 1, user_id |-> u, rating |-> rt, comment |-> Text10])
       /\ UNCHANGED client
ReqUpdateReview ==
  \E c \in Callers, u \in UserIds, rt \in {4, 6} :
     UpdateReview(c, 1, u, rt) /\ UNCHANGED client
ReqDeleteReview ==
  \E c \in Callers, u \in UserIds : DeleteReview(c, 1, u) /\ UNCHANGED client
ReqSelectEvent ==
  \E c \in Callers : SelectEvent(c, 1) /\ UNCHANGED client
ReqSelectRsvps ==
  \E c \in Callers : SelectRsvps(c, 1) /\ UNCHANGED client
ReqSelectReviews ==
  \E c \in Callers : SelectReviews(c, 1) /\ UNCHANGED client
ReqCreateEvent ==
  \E u \in UserIds, sp \in StoreSpans \cup {<<NoTime, 1>>}, t \in {Text3, <<"A", " ", " ">>} :
     /\ nextEventId = 1
     /\ handleSubmit(u, [title |-> t, description |-> Text10, location |-> Text3,
                         start_time |-> sp[1], end_time |-> sp[2]], TRUE)
     /\ UNCHANGED client

Next ==
  \/ ReqRegister
  \/ ReqDeleteUser
  \/ ReqInsertEvent
  \/ ReqUpdateEvent
  \/ ReqDeleteEvent
  \/ ReqInsertRsvp
  \/ ReqUpdateRsvp
  \/ ReqDeleteRsvp
  \/ ReqInsertReview
  \/ ReqUpdateReview
  \/ ReqDeleteReview
  \/ ReqSelectEvent
  \/ ReqSelectRsvps
  \/ ReqSelectReviews
  \/ ReqCreateEvent

Spec == Init /\ [][Next]_vars

\* ------------------------------------------------------------ SpecCascade
\* two profiles, two events, the rows they author on each other's events, and
\* the deletions; every write is by the row's owner
CascadeFields == EventFields(UserIds, {<<0, 1>>}, {TRUE}, {Text3})

CasRegister == \E u \in UserIds : RegisterUser(u, NoName) /\ UNCHANGED client
CasDeleteUser == \E u \in UserIds : DeleteUser(u) /\ UNCHANGED client
CasInsertEvent ==
  \E f \in CascadeFields : InsertEvent(f.organizer_id, f) /\ UNCHANGED client
CasDeleteEvent ==
  \E c \in UserIds, id \in EventIds : DeleteEvent(c, id) /\ UNCHANGED client
CasInsertRsvp ==
  \E u \in UserIds, e \in EventIds :
     InsertRsvp(u, [event_id |-> e, user_id |-> u, status |-> "going"]) /\ UNCHANGED client
CasInsertReview ==
  \E u \in UserIds, e \in EventIds :
     InsertReview(u, [event_id |-> e, user_id |-> u, rating |-> 5, comment |-> Text10])
       /\ UNCHANGED client

NextCascade ==
  \/ CasRegister
  \/ CasDeleteUser
  \/ CasInsertEvent
  \/ CasDeleteEvent
  \/ CasInsertRsvp
  \/ CasInsertReview

SpecCascade == Init /\ [][NextCascade]_vars

\* --------------------------------------------------------------- SpecPage
\* one event of organizer u2, created at time 0, and two EventDetails pages on
\* it, each opened by u1 or by u2; the calls of the pages interleave at the store
PageRatings == {3, 5}
PageComments == {Text10, <<"o", "k", " ">>}

PgRegister == \E u \in UserIds : RegisterUser(u, NoName) /\ UNCHANGED client
PgCreateEvent ==
  /\ nextEventId = 1 /\ now = 0
  /\ handleSubmit("u2", [title |-> Text3, description |-> Text10, location |-> Text3,
                         start_time |-> 0, end_time |-> 1], TRUE)
  /\ UNCHANGED client
PgOpen == \E s \in Sessions, u \in UserIds : Open(s, u, 1)
PgClickRsvp == \E s \in Sessions, st \in StoreStatuses : ClickRsvp(s, st)
PgSubmitReview ==
  \E s \in Sessions, rt \in PageRatings, cm \in PageComments : SubmitReview(s, rt, cm)
PgClickDelete == \E s \in Sessions : ClickDelete(s)
PgApply == \E s \in Sessions : \E i \in 1..Len(pages[s].calls) : Apply(s, i)
PgReturn == \E s \in Sessions : \E i \in 1..Len(pages[s].calls) : Return(s, i)

NextPage ==
  \/ Tick
  \/ PgRegister
  \/ PgCreateEvent
  \/ PgOpen
  \/ PgClickRsvp
  \/ PgSubmitReview
  \/ PgClickDelete
  \/ PgApply
  \/ PgReturn

SpecPage == Init /\ [][NextPage]_vars

\* -------------------------------------------------------------- SpecIndex
\* events of u1, created at time 0, public and private, past and upcoming,
\* with titles that differ in their letters' case; the list is fetched and
\* filtered, then and later
IndexTitles == {Text3, <<"c", "A", "b">>}
IndexSpans == {<<0, 1>>, <<1, 2>>}
IndexQueries == {<<>>, <<"c", "A">>, <<"B", "c">>}

IxRegister == \E u \in UserIds : RegisterUser(u, NoName) /\ UNCHANGED client
IxCreateEvent ==
  \E t \in IndexTitles, sp \in IndexSpans, pb \in BOOLEAN :
     /\ now = 0
     /\ handleSubmit("u1", [title |-> t, description |-> Text10, location |-> Text3,
                         start_time |-> sp[1], end_time |-> sp[2]], pb)
     /\ UNCHANGED client
IxFetchEvents == \E c \in Callers : fetchEvents(c)
IxSetSearchQuery == \E q \in IndexQueries : setSearchQuery(q)

NextIndex ==
  \/ Tick
  \/ IxRegister
  \/ IxCreateEvent
  \/ IxFetchEvents
  \/ IxSetSearchQuery

SpecIndex == Init /\ [][NextIndex]_vars

\* --------------------------------------------------------------- SpecCalc
\* the derived values of a page, for every list of up to MaxRows embedded rows
MaxRows == 3
\* the days 0 .. MaxDay, and up to MaxStamps timestamps of events
MaxDay == 3
MaxStamps == 2

RECURSIVE SeqsUpTo(_, _)
SeqsUpTo(S, n) ==
  IF n = 0 THEN {<<>>}
  ELSE LET shorter == SeqsUpTo(S, n - 1)
       IN shorter \cup {Append(q, x) : q \in {r \in shorter : Len(r) = n - 1}, x \in S}

ReviewRowLists == SeqsUpTo({[rating |-> rt] : rt \in 1..5}, MaxRows)
RsvpRowLists == SeqsUpTo({[status |-> st] : st \in rsvp_status}, MaxRows)

TrendInputs ==
  {[start_date |-> a, end_date |-> b, stamps |-> q] :
     a \in 0..MaxDay, b \in 0..MaxDay,
     q \in SeqsUpTo(0..((MaxDay + 1) * TicksPerDay - 1), MaxStamps)}

CalcInputs ==
  {[NoCalc EXCEPT !.fn = "avgRating", !.input = q] : q \in ReviewRowLists}
    \cup {[NoCalc EXCEPT !.fn = "counts", !.input = q] : q \in RsvpRowLists}
    \cup {[NoCalc EXCEPT !.fn = "trends", !.input = x] : x \in TrendInputs}

InitCalc == Constructed /\ calc \in CalcInputs

NextCalc ==
  \/ RenderAvgRating
  \/ RenderButtonCounts
  \/ GetTrends

SpecCalc == InitCalc /\ [][NextCalc]_vars

\* ------------------------------------------------------------- SpecReview
\* one event of u2 and the reviews its owners insert, update and delete, with
\* ratings in and out of range and comments long, short and empty
ReviewRatings == {0, 1, 5, 6}
ReviewComments == {Text10, <<"o", "k", " ">>, <<>>}

RvRegister == \E u \in UserIds : RegisterUser(u, NoName) /\ UNCHANGED client
RvInsertEvent ==
  \E f \in EventFields({"u2"}, {<<0, 1>>}, {TRUE}, {Text3}) :
     nextEventId = 1 /\ InsertEvent("u2", f) /\ UNCHANGED client
RvInsertReview ==
  \E u \in UserIds, rt \in ReviewRatings, cm \in ReviewComments :
     InsertReview(u, [event_id |-> 1, user_id |-> u, rating |-> rt, comment |-> cm])
       /\ UNCHANGED client
RvUpdateReview ==
  \E u \in UserIds, rt \in ReviewRatings : UpdateReview(u, 1, u, rt) /\ UNCHANGED client
RvDeleteReview == \E u \in UserIds : DeleteReview(u, 1, u) /\ UNCHANGED client

NextReview ==
  \/ RvRegister
  \/ RvInsertEvent
  \/ RvInsertReview
  \/ RvUpdateReview
  \/ RvDeleteReview

SpecReview == Init /\ [][NextReview]_vars

\* ------------------------------------------------------------ SpecProfile
\* registrations with and without a full_name in the metadata, and every
\* statement on profiles by every caller, also by one whose account is gone
ProfileNames == {"Ann", "Bob"}

PrRegister ==
  \E u \in UserIds, meta \in {NoName, "Ann"} : RegisterUser(u, meta) /\ UNCHANGED client
PrDeleteUser == \E u \in UserIds : DeleteUser(u) /\ UNCHANGED client
PrInsertProfile ==
  \E c \in Callers, u \in UserIds :
     InsertProfile(c, [id |-> u, full_name |-> "Bob"]) /\ UNCHANGED client
PrUpdateProfile ==
  \E c \in Callers, u \in UserIds, n \in ProfileNames :
     UpdateProfile(c, u, n) /\ UNCHANGED client
PrDeleteProfile ==
  \E c \in Callers, u \in UserIds : DeleteProfile(c, u) /\ UNCHANGED client

NextProfile ==
  \/ Tick
  \/ PrRegister
  \/ PrDeleteUser
  \/ PrInsertProfile
  \/ PrUpdateProfile
  \/ PrDeleteProfile

SpecProfile == Init /\ [][NextProfile]_vars

\* -------------------------------------------------------------- SpecStamp
\* one event of u2 and the RSVPs on it, inserted and updated by their owners
\* while the clock advances; an update names a status, or a status and an
\* updated_at of its own, or a created_at of its own
StampPatches ==
  {[status |-> st] : st \in StoreStatuses}
    \cup {[status |-> "not_going", updated_at |-> 0], [created_at |-> 0]}

StRegister == \E u \in UserIds : RegisterUser(u, NoName) /\ UNCHANGED client
StInsertEvent ==
  \E f \in EventFields({"u2"}, {<<0, 1>>}, {TRUE}, {Text3}) :
     nextEventId = 1 /\ InsertEvent("u2", f) /\ UNCHANGED client
StInsertRsvp ==
  \E u \in UserIds :
     InsertRsvp(u, [event_id |-> 1, user_id |-> u, status |-> "going"]) /\ UNCHANGED client
StUpdateRsvps ==
  \E u \in UserIds, patch \in StampPatches : UpdateRsvps(u, 1, u, patch) /\ UNCHANGED client

NextStamp ==
  \/ Tick
  \/ StRegister
  \/ StInsertEvent
  \/ StInsertRsvp
  \/ StUpdateRsvps

SpecStamp == Init /\ [][NextStamp]_vars

\* ------------------------------------------------------------- the claims
SymDiff(a, b) == (a \ b) \cup (b \ a)
EventStmts == {"insert_events", "update_events", "delete_events"}
RsvpStmts == {"insert_rsvps", "update_rsvps", "delete_rsvps"}
ReviewStmts == {"insert_reviews", "update_reviews", "delete_reviews"}
ProfileStmts == {"insert_profiles", "update_profiles", "delete_profiles"}
ReadStmts ==
  {"select_event", "select_events", "select_rsvps", "select_reviews", "handleSubmit",
   "handleSubmitReview"}

\* a creation (a direct insert, or the CreateEvent form) whose end_time is not
\* after its start_time
CreationOutOfRange ==
  /\ last.op \in {"insert_events", "handleSubmit"}
  /\ last.arg.start_time # NoTime /\ last.arg.end_time # NoTime
  /\ last.arg.end_time <= last.arg.start_time

\* C3: every stored event has end_time > start_time, and a creation with
\* end_time <= start_time fails and leaves the stored events as they were.
C3_EventTimeRange ==
  /\ [](\A e \in events : e.end_time > e.start_time)
  /\ [][CreationOutOfRange' => (last'.err # "none" /\ events' = events)]_vars

C3_Witness ==
  /\ CreationOutOfRange
  /\ last.op = "insert_events" /\ last.caller = last.arg.organizer_id
  /\ last.err = "check"
  /\ last.caller \in ProfileIds

LookupOfHiddenEvent ==
  /\ last.op = "select_event"
  /\ last.caller \in UserIds
  /\ \E e \in events : e.id = last.arg.id /\ ~e.is_public /\ e.organizer_id # last.caller

\* C5 as claimed: the lookup of a private event by another signed-in identity
\* yields an outcome of its own, neither the row nor what a missing id yields.
C5_UnauthorizedDistinct ==
  LookupOfHiddenEvent => last.err \notin {"none", SingleError({})}

\* C5: the lookup of an event the SELECT policy hides from the caller returns no
\* row and the very outcome of a lookup of an id that does not exist; a visible
\* event is returned.
C5_HiddenLooksMissing ==
  last.op = "select_event" =>
    LET target == {e \in events : e.id = last.arg.id}
        visible == {e \in target : e.is_public \/ e.organizer_id = last.caller}
    IN /\ visible = {} => last.err = SingleError({}) /\ last.seen = {}
       /\ visible # {} => last.err = "none" /\ {r.id : r \in last.seen} = {last.arg.id}

C5_Witness == LookupOfHiddenEvent /\ last.err = "no_rows" /\ last.seen = {}

\* C7 as claimed: a review is stored only for an event whose end_time has passed
\* when the review is submitted.
C7_ReviewOnlyAfterEnd ==
  (/\ last.op = "insert_reviews"
   /\ \E e \in events : e.id = last.arg.event_id /\ ~hasEnded(e, last.at))
    => last.err # "none"

\* the organizer of the stored event with this id
OrganizerOf(id) == (CHOOSE e \in events : e.id = id).organizer_id

\* C9 as claimed: the deletion of a profile removes the events it organizes and
\* the RSVPs and reviews it authored, and no event, RSVP or review of another
\* profile.
C9_RemovesNothingOfOthers ==
  [][(last'.op = "delete_user" /\ last' # last) =>
       LET u == last'.arg.id
       IN /\ events' = {e \in events : e.organizer_id # u}
          /\ rsvps' = {r \in rsvps : r.user_id # u}
          /\ reviews' = {r \in reviews : r.user_id # u}
    ]_vars

\* C9: the deletion of a profile removes the profile, the events it organizes,
\* the RSVPs and reviews it authored and, with its events, the RSVPs and reviews
\* other profiles authored on those events; nothing else is removed or changed.
C9_ProfileCascade ==
  [][(last'.op = "delete_user" /\ last' # last) =>
       LET u == last'.arg.id
       IN /\ profiles' = {q \in profiles : q.id # u}
          /\ events' = {e \in events : e.organizer_id # u}
          /\ rsvps' = {r \in rsvps : r.user_id # u /\ OrganizerOf(r.event_id) # u}
          /\ reviews' = {r \in reviews : r.user_id # u /\ OrganizerOf(r.event_id) # u}
    ]_vars

\* a profile was deleted; a row another profile authored on one of its events
\* went with it, and rows of the other profile on its own event stay
C9_Witness ==
  /\ last.op = "delete_user"
  /\ \E r \in last.seen : r.user_id # last.arg.id
  /\ \E r \in last.seen : r.user_id = last.arg.id
  /\ rsvps # {} /\ reviews # {} /\ events # {}

\* C10: every RSVP and review references a stored event and a stored profile,
\* every event a stored profile; the deletion of an event removes the RSVPs and
\* reviews of that event and no others.
C10_ReferentialIntegrity ==
  /\ [](/\ \A r \in rsvps \cup reviews :
             r.event_id \in EventIdsStored /\ r.user_id \in ProfileIds
        /\ \A e \in events : e.organizer_id \in ProfileIds)
  /\ [][last'.op = "delete_events" =>
          LET gone == {e.id : e \in events \ events'}
          IN /\ gone \subseteq {last'.arg.id}
             /\ Cardinality(gone) = last'.count
             /\ profiles' = profiles
             /\ rsvps' = {r \in rsvps : r.event_id \notin gone}
             /\ reviews' = {r \in reviews : r.event_id \notin gone}
       ]_vars

\* an event was deleted while the other event keeps its RSVPs and reviews, and a
\* later insert for the deleted event is refused
C10_Witness ==
  /\ last.op = "insert_rsvps" /\ last.err = "fk"
  /\ last.arg.event_id < nextEventId
  /\ last.arg.user_id \in ProfileIds
  /\ rsvps # {} /\ reviews # {}

\* the calls of the pages that the store has answered and the pages have not
\* yet taken back
AnsweredCalls ==
  {<<s, i>> \in Sessions \X (1..MaxCalls) :
     i <= Len(pages[s].calls) /\ pages[s].calls[i].phase = "done"}

\* C1: at most one RSVP and one review per (event_id, user_id); an insert for a
\* pair that has a row gets an error and the row that was there is the one row
\* of the pair.
C1_OneRowPerPair ==
  /\ \A r1, r2 \in rsvps :
       (r1.event_id = r2.event_id /\ r1.user_id = r2.user_id) => r1 = r2
  /\ \A r1, r2 \in reviews :
       (r1.event_id = r2.event_id /\ r1.user_id = r2.user_id) => r1 = r2
  /\ (last.op = "insert_rsvps" /\ last.seen # {}) =>
       (last.err # "none" /\ UniqueKey(rsvps, last.arg) = last.seen)
  /\ (last.op = "insert_reviews" /\ last.seen # {}) =>
       (last.err # "none" /\ UniqueKey(reviews, last.arg) = last.seen)

\* two pages of one user sent their inserts before either came back: one is
\* stored, the other is answered with the unique violation
C1_Witness ==
  \E a, b \in AnsweredCalls :
     LET ca == pages[a[1]].calls[a[2]]
         cb == pages[b[1]].calls[b[2]]
     IN /\ a[1] # b[1]
        /\ pages[a[1]].user = pages[b[1]].user
        /\ ca.fn = "handleRsvp" /\ ca.arg.op = "insert" /\ ca.err = "none"
        /\ cb.fn = "handleRsvp" /\ cb.arg.op = "insert" /\ cb.err = "duplicate"
        /\ ca.arg.status # cb.arg.status
        /\ Cardinality(rsvps) = 1

\* C2 as claimed: an RSVP submission by u for a stored event is an upsert decided
\* against the store: it succeeds and leaves the row of (e, u) with the
\* submitted status, whatever the page last fetched.
C2_RsvpIsUpsert ==
  (/\ last.op \in {"insert_rsvps", "update_rsvps"}
   /\ last.caller = last.arg.user_id
   /\ last.arg.event_id \in EventIdsStored /\ last.arg.user_id \in ProfileIds)
    => /\ last.err = "none"
       /\ \E r \in rsvps : /\ r.event_id = last.arg.event_id
                           /\ r.user_id = last.arg.user_id
                           /\ r.status = last.arg.status

\* a review submission by its author for a pair that has a review
DuplicateReviewSubmission ==
  /\ last.op \in {"insert_reviews", "handleSubmitReview"}
  /\ last.caller = last.arg.user_id
  /\ last.seen # {}

SameLetter(a, b) == a = b \/ {a, b} \in {{"a", "A"}, {"b", "B"}, {"c", "C"}}
\* text t contains text q, case-insensitively
ContainsCI(t, q) ==
  \E i \in 0..(Len(t) - Len(q)) : \A k \in 1..Len(q) : SameLetter(t[i + k], q[k])
Range(q) == {q[i] : i \in DOMAIN q}
\* the place of an event in the fetched list
PlaceOf(e) == CHOOSE i \in DOMAIN index.events : index.events[i] = e

\* C6: the fetched list holds exactly the stored public events that start at or
\* after the time of the query, each once, ascending by start_time, never a
\* private event; the filter keeps exactly the events whose title, description
\* or location contains the text case-insensitively, in the order of the list.
C6_ListPublicUpcoming ==
  /\ last.op = "select_events" =>
       /\ Range(index.events) = {e \in events : e.is_public /\ e.start_time >= last.at}
       /\ Len(index.events) = Cardinality(Range(index.events))
  /\ \A i, j \in DOMAIN index.events :
       i < j => index.events[i].start_time <= index.events[j].start_time
  /\ \A i \in DOMAIN index.events : index.events[i].is_public
  /\ Range(filteredEvents) =
       {e \in Range(index.events) :
          \/ ContainsCI(e.title, index.searchQuery)
          \/ ContainsCI(e.description, index.searchQuery)
          \/ ContainsCI(e.location, index.searchQuery)}
  /\ \A i, j \in DOMAIN filteredEvents :
       i < j => PlaceOf(filteredEvents[i]) < PlaceOf(filteredEvents[j])

\* two public upcoming events listed in the order of their start, not in the
\* order of their ids; the filter text, in another case than the title, keeps
\* one of the two
C6_Witness ==
  /\ last.op = "select_events"
  /\ Len(index.events) = 2
  /\ index.events[1].start_time < index.events[2].start_time
  /\ index.events[1].id > index.events[2].id
  /\ index.searchQuery = <<"c", "A">>
  /\ Len(filteredEvents) = 1

\* C11: registration and the creation of the profile are one step: the
\* registered identities are exactly the ids of the profiles, one profile each;
\* the new profile's full_name is the metadata's, or 'Anonymous User' when the
\* metadata has none; no statement of a caller removes a profile.
C11_ProfilePerIdentity ==
  /\ [](/\ ProfileIds = users
        /\ \A u \in users : Cardinality({p \in profiles : p.id = u}) = 1)
  /\ [][(last' # last /\ last'.op = "register") =>
          \E p \in profiles' \ profiles :
             /\ p.id = last'.arg.id
             /\ p.id \notin users /\ p.id \in users'
             /\ p.full_name = IF last'.arg.meta = NoName THEN "Anonymous User"
                                                       ELSE last'.arg.meta]_vars
  /\ [][last'.caller # "system" => ProfileIds \subseteq ProfileIds']_vars

\* u2 registered with a name and u1 without; u1 asked to delete its own profile
\* and it is still there, under the default name
C11_Witness ==
  /\ last.op = "delete_profiles" /\ last.caller = "u1" /\ last.arg.id = "u1"
  /\ \E p \in profiles : p.id = "u1" /\ p.full_name = "Anonymous User"
  /\ \E p \in profiles : p.id = "u2" /\ p.full_name = "Ann"

\* the rows of rsvps with the key of the last statement
LastRsvp == UniqueKey(rsvps, last.arg)
\* the last statement updated an RSVP
RsvpUpdated == last.op = "update_rsvps" /\ last.count = 1

\* C12: after an update of an RSVP there is one row for the (event, user); its
\* status is the submitted one and its updated_at is the time of the update,
\* whatever updated_at the caller named; when an update follows an update of
\* the same RSVP, updated_at is not earlier than it was.
C12_UpdateTwice ==
  /\ [](RsvpUpdated =>
          /\ Cardinality(LastRsvp) = 1
          /\ \A r \in LastRsvp :
                /\ r.updated_at = last.at
                /\ "status" \in DOMAIN last.arg => r.status = last.arg.status)
  /\ [][(/\ RsvpUpdated /\ RsvpUpdated'
          /\ last'.arg.event_id = last.arg.event_id
          /\ last'.arg.user_id = last.arg.user_id) =>
           \A r \in LastRsvp : \A r2 \in LastRsvp' : r2.updated_at >= r.updated_at]_vars

\* an RSVP updated before is updated again, later, to another status, by a
\* statement that names an updated_at of its own
C12_Witness ==
  /\ RsvpUpdated
  /\ "updated_at" \in DOMAIN last.arg /\ last.arg.updated_at # last.at
  /\ \E r \in last.seen :
        /\ r.updated_at > r.created_at /\ r.updated_at < last.at
        /\ r.status # last.arg.status
  /\ \A r \in LastRsvp : r.status = "not_going" /\ r.updated_at = last.at

\* C13 as claimed: an RSVP update, an event deletion, a profile update or a
\* review submission that writes no row is answered with an error.
C13_NoSilentNoOp ==
  (/\ last.op \in {"update_rsvps", "delete_events", "update_profiles", "insert_reviews"}
   /\ last.count = 0)
    => last.err # "none"

\* the stored event with this id is private and the caller is not its organizer
HiddenFrom(c, id) == \E e \in events : e.id = id /\ ~e.is_public /\ e.organizer_id # c

\* C14 as claimed: no read by an identity returns a private event of another
\* organizer, nor an RSVP or a review of such an event.
C14_PrivateRowsUnreadable ==
  /\ last.op = "select_event" => \A row \in last.seen : ~HiddenFrom(last.caller, row.id)
  /\ last.op \in {"select_rsvps", "select_reviews"} =>
       \A r \in last.seen : ~HiddenFrom(last.caller, r.event_id)

\* C14: the lookup of an event returns no private event of another organizer,
\* and so none of its RSVPs and reviews: for such an event it returns nothing,
\* whatever RSVPs and reviews the event has.  A read of the RSVPs or of the
\* reviews themselves returns every row of the event, of a private event too.
C14_EventReadsHidePrivate ==
  /\ last.op = "select_event" =>
       /\ \A row \in last.seen :
             /\ ~HiddenFrom(last.caller, row.id)
             /\ {r.user_id : r \in row.rsvps} = {r.user_id : r \in EventCascade(rsvps, {row.id})}
             /\ {r.user_id : r \in row.reviews}
                  = {r.user_id : r \in EventCascade(reviews, {row.id})}
       /\ HiddenFrom(last.caller, last.arg.id) => last.seen = {}
  /\ last.op = "select_rsvps" => last.seen = EventCascade(rsvps, {last.arg.event_id})
  /\ last.op = "select_reviews" => last.seen = EventCascade(reviews, {last.arg.event_id})

\* a private event with an RSVP on it: the lookup by another identity returned
\* nothing
C14_Witness ==
  /\ last.op = "select_event" /\ last.caller \in UserIds
  /\ HiddenFrom(last.caller, last.arg.id)
  /\ EventCascade(rsvps, {last.arg.id}) # {}
  /\ last.seen = {}

\* the number of rows of a list with this value in this column
CountOf(rows, col, v) == Cardinality({i \in DOMAIN rows : rows[i][col] = v})
\* the ratings of a list of reviews, added up
RatingTotal(rows) ==
  1 * CountOf(rows, "rating", 1) + 2 * CountOf(rows, "rating", 2)
    + 3 * CountOf(rows, "rating", 3) + 4 * CountOf(rows, "rating", 4)
    + 5 * CountOf(rows, "rating", 5)
\* t tenths is a nearest one-decimal value to total / n
NearestTenths(t, total, n) ==
  \A u \in 0..60 :
     (IF 10 * total >= t * n THEN 10 * total - t * n ELSE t * n - 10 * total)
       <= (IF 10 * total >= u * n THEN 10 * total - u * n ELSE u * n - 10 * total)

\* C15: the average shown for no review is "N/A"; for reviews of ratings 1..5 it
\* is the mean of the ratings with one decimal, a nearest one, and lies between
\* 1.0 and 5.0; for the ratings 5, 3, 4 it is "4.0".
C15_AverageRating ==
  (calc.fn = "avgRating" /\ calc.done) =>
    /\ Len(calc.input) = 0 => calc.out = <<"N", "/", "A">>
    /\ Len(calc.input) > 0 =>
         \E t \in 10..50 :
            /\ NearestTenths(t, RatingTotal(calc.input), Len(calc.input))
            /\ calc.out = <<Digits[(t \div 10) + 1], ".", Digits[(t % 10) + 1]>>
    /\ calc.input = <<[rating |-> 5], [rating |-> 3], [rating |-> 4]>>
         => calc.out = <<"4", ".", "0">>

\* the mean of 5, 4, 5 is 4.666..: the average shown is "4.7"
C15_Witness ==
  /\ calc.fn = "avgRating" /\ calc.done
  /\ calc.input = <<[rating |-> 5], [rating |-> 4], [rating |-> 5]>>
  /\ calc.out = <<"4", ".", "7">>

C17_TrendBuckets ==
  (calc.fn = "trends" /\ calc.done) =>
    LET in == calc.input
        days == in.start_date..in.end_date
    IN /\ Len(calc.out) = Cardinality(days)
       /\ \A i \in DOMAIN calc.out :
             /\ calc.out[i].bucket_date = in.start_date + i - 1
             /\ calc.out[i].count
                  = Cardinality({k \in DOMAIN in.stamps :
                       /\ in.stamps[k] >= calc.out[i].bucket_date * TicksPerDay
                       /\ in.stamps[k] < (calc.out[i].bucket_date + 1) * TicksPerDay})
       /\ (in.start_date = 1 /\ in.end_date = 3 /\ Len(in.stamps) = 1 /\ DayOf(in.stamps[1]) = 2)
            => calc.out = <<[bucket_date |-> 1, count |-> 0], [bucket_date |-> 2, count |-> 1],
                            [bucket_date |-> 3, count |-> 0]>>

\* the days 1 to 3 and one event late on day 2, another on day 0
C17_Witness ==
  /\ calc.fn = "trends" /\ calc.done
  /\ calc.input = [start_date |-> 1, end_date |-> 3, stamps |-> <<5, 0>>]
  /\ calc.out = <<[bucket_date |-> 1, count |-> 0], [bucket_date |-> 2, count |-> 1],
                  [bucket_date |-> 3, count |-> 0]>>

\* C18: a stored event's organizer_id is the identity whose insert created it,
\* and no step changes the organizer_id of an event.
C18_OrganizerImmutable ==
  /\ [](last.op = "insert_events" /\ last.err = "none" =>
          \A e \in events : e.id = last.arg.id => e.organizer_id = last.caller)
  /\ [][\A e \in events : \A e2 \in events' :
           e2.id = e.id => e2.organizer_id = e.organizer_id]_vars

\* the organizer asked to hand its event to another profile, and was refused
C18_Witness ==
  /\ last.op = "update_events" /\ last.err = "rls"
  /\ "organizer_id" \in DOMAIN last.arg.patch
  /\ last.arg.patch.organizer_id \in ProfileIds
  /\ \E e \in events :
        /\ e.id = last.arg.id /\ e.organizer_id = last.caller
        /\ e.organizer_id # last.arg.patch.organizer_id

\* C19 as claimed: a row of profiles, events, rsvps or reviews keeps the
\* created_at it has, through every step that keeps the row.
C19_CreatedAtImmutable ==
  [][/\ \A p \in profiles : \A p2 \in profiles' :
          p2.id = p.id => p2.created_at = p.created_at
     /\ \A e \in events : \A e2 \in events' :
          e2.id = e.id => e2.created_at = e.created_at
     /\ \A r \in rsvps : \A r2 \in rsvps' :
          (r2.event_id = r.event_id /\ r2.user_id = r.user_id) => r2.created_at = r.created_at
     /\ \A r \in reviews : \A r2 \in reviews' :
          (r2.event_id = r.event_id /\ r2.user_id = r.user_id) => r2.created_at = r.created_at]_vars

\* C20 as claimed: every stored review has a rating in 1..5, and a review
\* submitted with a rating outside 1..5 or with an empty comment is refused
\* and nothing is written.
C20_InvalidReviewRejected ==
  /\ \A r \in reviews : r.rating \in 1..5
  /\ (/\ last.op \in {"insert_reviews", "handleSubmitReview"}
      /\ last.arg.rating \notin 1..5 \/ last.arg.comment = <<>>)
       => last.err # "none" /\ last.count = 0

\* --------------------------------------------------------------- SpecRsvp
\* one event of organizer u2, created at time 0, and one EventDetails page on
\* it, opened by u1; u1 clicks RSVP buttons while earlier calls of the page are
\* still out, and the calls reach the store and come back in every order.
\* Nothing but this page writes u1's RSVP.
MaxPending == 2

RpRegister == \E u \in UserIds : RegisterUser(u, NoName) /\ UNCHANGED client
RpCreateEvent ==
  /\ nextEventId = 1 /\ now = 0
  /\ handleSubmit("u2", [title |-> Text3, description |-> Text10, location |-> Text3,
                         start_time |-> 0, end_time |-> 1], TRUE)
  /\ UNCHANGED client
RpOpen == Open("s1", "u1", 1)
RpClickRsvp == \E st \in StoreStatuses : ClickRsvpWithin("s1", st, MaxPending)
RpApply == \E i \in 1..Len(pages["s1"].calls) : Apply("s1", i)
RpReturn == \E i \in 1..Len(pages["s1"].calls) : Return("s1", i)

NextRsvp ==
  \/ RpRegister
  \/ RpCreateEvent
  \/ RpOpen
  \/ RpClickRsvp
  \/ RpApply
  \/ RpReturn

SpecRsvp == Init /\ [][NextRsvp]_vars

\* the page of a signed-in user that shows the event and has no call out
Settled(s) ==
  /\ pages[s].open /\ pages[s].user # Anon
  /\ pages[s].event # NoEvent /\ pages[s].calls = <<>>

\* the status of the RSVP row of the page's user for the page's event, null
\* when there is none
StoredRsvp(s) ==
  LET mine == {r \in rsvps : r.event_id = pages[s].id /\ r.user_id = pages[s].user}
  IN IF mine = {} THEN Null ELSE (CHOOSE r \in mine : TRUE).status

\* C21 as claimed: on the event page of a signed-in user, once every RSVP
\* submission and every refetch of the page has completed, the userRsvp the
\* page holds is the status of the user's RSVP row in the store (null when
\* there is none), whatever the order in which the calls completed.
C21_UserRsvpConverges ==
  \A s \in Sessions : Settled(s) => pages[s].userRsvp = StoredRsvp(s)

\* --------------------------------------------------------------- SpecBusy
\* u1 submits the CreateEvent form and the Profile form, with values the
\* schemas take and values they refuse, the first at time 0 and the second at
\* time 1, one route at a time in u1's browser; once both have answered and the
\* event has ended, u2 reviews it on an EventDetails page.  u1 may be deleted
\* meanwhile, so that the store refuses an insert, and requests get lost on
\* the way.
CreateInputs ==
  {[title |-> t, description |-> Text10, location |-> Text3,
    start_time |-> sp[1], end_time |-> sp[2]] :
     t \in {Text3, <<"A", " ">>}, sp \in {<<0, 1>>, <<1, 1>>}}
ProfileTexts == {<<>>, Text3}

BzRegister == \E u \in UserIds : RegisterUser(u, Text3) /\ UNCHANGED client
BzDeleteUser == DeleteUser("u1") /\ UNCHANGED client
BzCreateSubmit ==
  \E d \in CreateInputs :
     /\ now = 0 /\ nextEventId = 1 /\ forms.profile.pc = "idle"
     /\ CreateSubmit("u1", d, TRUE)
BzProfileSubmit ==
  \E n \in {Text3, <<"A">>}, b \in ProfileTexts :
     now = 1 /\ forms.create.pc = "idle" /\ ProfileSubmit("u1", n, b, Text3)
BzOpen ==
  /\ now >= 2 /\ forms.create.pc = "idle" /\ forms.profile.pc = "idle"
  /\ Open("s1", "u2", 1)
BzSubmitReview == \E cm \in PageComments : SubmitReview("s1", 5, cm)
BzApply(i) == i <= Len(pages["s1"].calls) /\ Apply("s1", i)
BzLost(i) == i <= Len(pages["s1"].calls) /\ Lost("s1", i)
BzReturn(i) == i <= Len(pages["s1"].calls) /\ Return("s1", i)

NextBusy ==
  \/ Tick
  \/ BzRegister
  \/ BzDeleteUser
  \/ BzCreateSubmit
  \/ CreateParse
  \/ CreateApply
  \/ CreateFail
  \/ CreateReturn
  \/ BzProfileSubmit
  \/ ProfileParse
  \/ ProfileApply
  \/ ProfileFail
  \/ ProfileReturn
  \/ BzOpen
  \/ BzSubmitReview
  \/ \E i \in 1..MaxCalls : BzApply(i)
  \/ \E i \in 1..MaxCalls : BzLost(i)
  \/ \E i \in 1..MaxCalls : BzReturn(i)

\* a handler that has started runs on: the schema is synchronous, the promise
\* of a call settles (answered by the store, or failed by the transport), and
\* the continuation of a settled promise is run
FairBusy ==
  /\ WF_vars(CreateParse) /\ WF_vars(CreateApply \/ CreateFail) /\ WF_vars(CreateReturn)
  /\ WF_vars(ProfileParse) /\ WF_vars(ProfileApply \/ ProfileFail) /\ WF_vars(ProfileReturn)
  /\ \A i \in 1..MaxCalls : WF_vars(BzApply(i) \/ BzLost(i)) /\ WF_vars(BzReturn(i))

SpecBusy == Init /\ [][NextBusy]_vars /\ FairBusy

\* C22: every form submission clears its busy flag in the end: isLoading of
\* the CreateEvent form, saving of the Profile form and submittingReview of an
\* EventDetails page, once true, are false again later, whatever the outcome
\* of the submission.
C22_BusyFlagsClear ==
  /\ forms.create.isLoading ~> ~forms.create.isLoading
  /\ forms.profile.saving ~> ~forms.profile.saving
  /\ \A s \in Sessions : pages[s].submittingReview ~> ~pages[s].submittingReview

\* all three forms were submitted and are enabled again: the event was created,
\* the profile save was refused by the schema, and the review of u2 is stored
C22_Witness ==
  /\ forms.create.err = "none" /\ ~forms.create.isLoading /\ events # {}
  /\ forms.profile.err = "zod" /\ ~forms.profile.saving
  /\ \E r \in reviews : r.user_id = pages["s1"].user
  /\ pages["s1"].open /\ ~pages["s1"].submittingReview /\ pages["s1"].calls = <<>>

====
